---- MODULE Spec2Model ----
(***************************************************************************)
(* Model of the tic-tac-toe command line game (src/src/main.rs).           *)
(*                                                                         *)
(* Three specifications share the variables:                               *)
(*   Spec      the running program: main() parses the start player,        *)
(*             builds the Game and runs the interactive loop;              *)
(*   SpecGame  the Game type used directly: Game::new followed by any      *)
(*             sequence of play_move / check_winner / is_full calls;       *)
(*   SpecPure  check_winner as a pure function of an arbitrary board.      *)
(* FairSpec is Spec with weak fairness on turns that place a mark.         *)
(***************************************************************************)
EXTENDS Integers, Sequences, FiniteSets, TLC

VARIABLES
    board,           \* Game.board: [[char; 3]; 3]; <<>> before Game::new ran
    current_player,  \* Game.current_player; NoPlayer before Game::new ran
    pc,              \* where the program is
    start_arg,       \* Args.start_player, the character given on the command line
    last,            \* the latest call made on the game, with its arguments and result
    output,          \* the latest message printed
    placed           \* history: the marks written by the successful play_move calls

vars == <<board, current_player, pc, start_arg, last, output, placed>>

----------------------------------------------------------------------------
(* Bounds and program constants *)

\* Coordinates entered or passed range over 0..MaxCoord; 3 is out of range.
MaxCoord == 3

\* Cap of the history of placements (the code never makes more than 9).
MaxPlaced == 12

\* Cells filled one after the other on a board given to check_winner; every
\* board is a starting board, so every pair of a board and a fuller one occurs.
MaxFills == 2

\* The board is [[char; 3]; 3].
BoardSize == 3

PLAYER_X == "X"
PLAYER_O == "O"
EMPTY == " "

PlayerX == "Player::X"
PlayerO == "Player::O"
Player == {PlayerX, PlayerO}

\* Option<Player>::None
None == "None"
\* the outcome of a panic!() or of an out-of-bounds index
PANIC == "panic"
\* no Game exists yet
NoPlayer == "NoPlayer"
NoBoard == <<>>

Idx == 0 .. (BoardSize - 1)
Chars == {PLAYER_X, PLAYER_O, EMPTY}

----------------------------------------------------------------------------
(* impl Player *)

\* toggle with both arms giving the player itself
toggle_same(p) == p

toggle(p) == IF p = PlayerX THEN PlayerO ELSE PlayerX

from_char(c) ==
    IF c = PLAYER_X THEN PlayerX
    ELSE IF c = PLAYER_O THEN PlayerO
    ELSE PANIC

\* impl fmt::Display for Player
fmt_player(p) == IF p = PlayerX THEN "X" ELSE "O"

\* Option::unwrap_or
unwrap_or(opt, default) == IF opt = None THEN default ELSE opt

----------------------------------------------------------------------------
(* impl Game *)

\* new ignoring the start player: X always starts
new_x_first(start_player) ==
    [board |-> [i \in Idx |-> [j \in Idx |-> EMPTY]],
     current_player |-> PlayerX]

new(start_player) ==
    [board |-> [i \in Idx |-> [j \in Idx |-> EMPTY]],
     current_player |-> start_player]

\* the match of lines 56-59
\* the marks of the two players exchanged
mark_of_swapped(p) == IF p = PlayerX THEN PLAYER_O ELSE PLAYER_X

mark_of(p) == IF p = PlayerX THEN PLAYER_X ELSE PLAYER_O

\* the array index of line 55: an index outside 0..2 panics
index_ok(x, y) == x \in Idx /\ y \in Idx

\* play_move answering true for an occupied cell too
play_move_always_true(b, p, x, y) ==
    IF b[x][y] = EMPTY
    THEN [board |-> [b EXCEPT ![x][y] = mark_of(p)],
          current_player |-> toggle(p),
          ret |-> TRUE]
    ELSE [board |-> b, current_player |-> p, ret |-> TRUE]

\* play_move passing the turn on a rejected move too
play_move_toggle_on_reject(b, p, x, y) ==
    IF b[x][y] = EMPTY
    THEN [board |-> [b EXCEPT ![x][y] = mark_of(p)],
          current_player |-> toggle(p),
          ret |-> TRUE]
    ELSE [board |-> b, current_player |-> toggle(p), ret |-> FALSE]

\* play_move without the test of the cell
play_move_unchecked(b, p, x, y) ==
    [board |-> [b EXCEPT ![x][y] = mark_of(p)],
     current_player |-> toggle(p),
     ret |-> TRUE]

\* play_move(x, y) on the game <<b, p>>, for indices inside the array:
\* the game after the call and what the call returns
play_move(b, p, x, y) ==
    IF b[x][y] = EMPTY
    THEN [board |-> [b EXCEPT ![x][y] = mark_of(p)],
          current_player |-> toggle(p),
          ret |-> TRUE]
    ELSE [board |-> b, current_player |-> p, ret |-> FALSE]

\* the row test without the test of the empty cell
horizontal_blank_ok(b, i) == b[i][0] = b[i][1] /\ b[i][1] = b[i][2]

\* the row test comparing only the first two cells
horizontal_two_cells(b, i) == b[i][0] = b[i][1] /\ b[i][0] # EMPTY

\* the row test written with the indices of the column test
horizontal_transposed(b, i) ==
    b[0][i] = b[1][i] /\ b[1][i] = b[2][i] /\ b[0][i] # EMPTY

horizontal(b, i) == b[i][0] = b[i][1] /\ b[i][1] = b[i][2] /\ b[i][0] # EMPTY
\* the column test comparing only the first two cells
vertical_two_cells(b, i) == b[0][i] = b[1][i] /\ b[0][i] # EMPTY

\* the column test written with the indices of the row test
vertical_transposed(b, i) ==
    b[i][0] = b[i][1] /\ b[i][1] = b[i][2] /\ b[i][0] # EMPTY

vertical(b, i) == b[0][i] = b[1][i] /\ b[1][i] = b[2][i] /\ b[0][i] # EMPTY
diagonal(b) == b[0][0] = b[1][1] /\ b[1][1] = b[2][2] /\ b[0][0] # EMPTY
\* the second diagonal ending in the wrong corner
anti_diagonal_wrong_corner(b) ==
    b[0][2] = b[1][1] /\ b[1][1] = b[2][2] /\ b[0][2] # EMPTY

anti_diagonal(b) == b[0][2] = b[1][1] /\ b[1][1] = b[2][0] /\ b[0][2] # EMPTY

\* lines 85-98: the diagonals, after the loop
check_diagonals(b) ==
    IF diagonal(b) THEN from_char(b[0][0])
    ELSE IF anti_diagonal(b) THEN from_char(b[0][2])
    ELSE None

\* lines 68-84: for i in 0..3, row i and then column i
RECURSIVE check_lines(_, _)
check_lines(b, i) ==
    IF i >= BoardSize THEN check_diagonals(b)
    ELSE IF horizontal(b, i) THEN from_char(b[i][0])
    ELSE IF vertical(b, i) THEN from_char(b[0][i])
    ELSE check_lines(b, i + 1)

check_winner(b) == check_lines(b, 0)

\* is_full with any in the place of the outer all
is_full_any_row(b) == \E i \in Idx : \A j \in Idx : b[i][j] # EMPTY

is_full(b) == \A i \in Idx : \A j \in Idx : b[i][j] # EMPTY

----------------------------------------------------------------------------
(* The text of a turn: lines 143-151.  A line is a sequence of characters. *)

\* The characters with the Unicode property White_Space, which str::trim
\* strips.  A character that a string of this module cannot hold is written
\* by the name of its code point.
WhiteSpace ==
    {"\t", "\n", "U+000B", "\f", "\r", " ", "U+0085", "U+00A0", "U+1680",
     "U+2000", "U+2001", "U+2002", "U+2003", "U+2004", "U+2005", "U+2006",
     "U+2007", "U+2008", "U+2009", "U+200A", "U+2028", "U+2029", "U+202F",
     "U+205F", "U+3000"}

\* char::is_whitespace
IsWhite(c) == c \in WhiteSpace

RECURSIVE trim_start(_)
trim_start(s) ==
    IF s # <<>> /\ IsWhite(Head(s)) THEN trim_start(Tail(s)) ELSE s

RECURSIVE trim_end(_)
trim_end(s) ==
    IF s # <<>> /\ IsWhite(s[Len(s)])
    THEN trim_end(SubSeq(s, 1, Len(s) - 1))
    ELSE s

\* str::trim
trim(s) == trim_end(trim_start(s))

\* str::split(','): the pieces between the commas, at least one piece
RECURSIVE split(_, _)
split(s, cur) ==
    IF s = <<>> THEN <<cur>>
    ELSE IF Head(s) = "," THEN <<cur>> \o split(Tail(s), <<>>)
    ELSE split(Tail(s), Append(cur, Head(s)))

IsDigit(c) == c \in {"0", "1", "2", "3", "4", "5", "6", "7", "8", "9"}

DigitVal(c) ==
    CASE c = "0" -> 0 [] c = "1" -> 1 [] c = "2" -> 2 [] c = "3" -> 3
      [] c = "4" -> 4 [] c = "5" -> 5 [] c = "6" -> 6 [] c = "7" -> 7
      [] c = "8" -> 8 [] c = "9" -> 9

RECURSIVE digits_value(_, _)
digits_value(s, acc) ==
    IF s = <<>> THEN acc ELSE digits_value(Tail(s), 10 * acc + DigitVal(Head(s)))

\* the digits of usize::MAX, 2^64 - 1
UsizeMax ==
    <<"1", "8", "4", "4", "6", "7", "4", "4", "0", "7",
      "3", "7", "0", "9", "5", "5", "1", "6", "1", "5">>

\* the digits without their leading zeros
RECURSIVE strip_zeros(_)
strip_zeros(d) ==
    IF d # <<>> /\ Head(d) = "0" THEN strip_zeros(Tail(d)) ELSE d

\* of two strings of digits of one length, the first is the greater number
RECURSIVE digits_greater(_, _)
digits_greater(a, b) ==
    IF a = <<>> THEN FALSE
    ELSE IF Head(a) # Head(b) THEN DigitVal(Head(a)) > DigitVal(Head(b))
    ELSE digits_greater(Tail(a), Tail(b))

\* the number written by the digits d is at most usize::MAX
fits_usize(d) ==
    \/ Len(strip_zeros(d)) < Len(UsizeMax)
    \/ /\ Len(strip_zeros(d)) = Len(UsizeMax)
       /\ ~digits_greater(strip_zeros(d), UsizeMax)

\* str::parse::<usize>().ok(): <<n>> is Some(n), <<>> is None.  An optional
\* '+' and then one or more decimal digits, of a number that fits in usize.
parse_usize(s) ==
    LET d == IF s # <<>> /\ Head(s) = "+" THEN Tail(s) ELSE s
    IN  IF d # <<>> /\ (\A k \in 1 .. Len(d) : IsDigit(d[k])) /\ fits_usize(d)
        THEN <<digits_value(d, 0)>>
        ELSE <<>>

\* lines 147-151: the coordinates read from a line
parse_coords(line) ==
    LET parts == split(trim(line), <<>>)
    IN  [k \in 1 .. Len(parts) |-> parse_usize(trim(parts[k]))]

\* the decimal digit of a number below 10
Digit(n) ==
    CASE n = 0 -> "0" [] n = 1 -> "1" [] n = 2 -> "2" [] n = 3 -> "3"
      [] n = 4 -> "4" [] n = 5 -> "5" [] n = 6 -> "6" [] n = 7 -> "7"
      [] n = 8 -> "8" [] n = 9 -> "9"

\* The lines a player may type: every pair of coordinates up to MaxCoord,
\* some of them spaced, one of them within white space other than the blank,
\* and lines that are not two numbers, one of them with a number above
\* usize::MAX.  <<>> is the end of the input.
Lines ==
    { <<Digit(x), ",", Digit(y), "\n">> : x \in 0 .. MaxCoord, y \in 0 .. MaxCoord }
    \cup { <<" ", Digit(x), " ", ",", " ", Digit(x), "\n">> : x \in {1, MaxCoord} }
    \cup { <<>>, <<"\n">>, <<"1", "\n">>, <<"x", ",", "1", "\n">>,
            <<"0", ",", "1", ",", "2", "\n">>, <<"-", "1", ",", "0", "\n">>,
            <<"+", "2", ",", "0", "\n">>, <<"1", "0", ",", "0", "\n">>,
            <<"\f", "1", ",", "U+00A0", "2", "U+3000", "\n">>,
            SubSeq(UsizeMax, 1, Len(UsizeMax) - 1) \o <<"6", ",", "0", "\n">> }

\* lines 147-151 for each line that may be typed, computed once
Coords == [line \in Lines |-> parse_coords(line)]

\* the command line's start player: X, O, and characters that are neither
StartArgs == {"X", "O", "Z", "x", " "}

----------------------------------------------------------------------------
(* What is printed *)

MsgStart == <<"Starting the game!">>
MsgBoard == <<"board">>
MsgRange == <<"Coordinates must be between 0 and 2. Please try again.">>
MsgTaken == <<"Invalid move! Spot already taken or out of bounds, please try again.">>
MsgFormat == <<"Invalid input! Please enter the coordinates in the format x, y where both x and y are between 0 and 2.">>
MsgWins(p) == <<"Player ", fmt_player(p), " wins!">>
MsgDraw == <<"It's a draw!">>
MsgPanic == <<"panicked">>
MsgReadPanic == <<"Failed to read line">>
MsgPrintPanic == <<"failed printing to stdout">>

NoCall == [op |-> "none"]
CallPlayMove(x, y, r) == [op |-> "play_move", x |-> x, y |-> y, ret |-> r]
CallCheckWinner(w) == [op |-> "check_winner", winner |-> w]
CallIsFull(f) == [op |-> "is_full", full |-> f]
CallPanicked(x, y) == [op |-> "play_move panicked", x |-> x, y |-> y]

----------------------------------------------------------------------------
(* main *)

\* line 137: while !game.is_full() && game.check_winner().is_none()
loop_condition(b) == ~is_full(b) /\ check_winner(b) = None

\* the range test written with the size of the board as the largest index
validate_size_allowed(line) ==
    LET coords == Coords[line]
    IN  IF Len(coords) = 2 /\ coords[1] # <<>> /\ coords[2] # <<>>
        THEN IF coords[1][1] > BoardSize \/ coords[2][1] > BoardSize
             THEN "range" ELSE "move"
        ELSE "format"

\* lines 154-172: what a line leads to: "format", "range" or "move"
validate(line) ==
    LET coords == Coords[line]
    IN  IF Len(coords) = 2 /\ coords[1] # <<>> /\ coords[2] # <<>>
        THEN IF coords[1][1] > 2 \/ coords[2][1] > 2 THEN "range" ELSE "move"
        ELSE "format"

\* after a placement, the full board tested before the winner
after_move_draw_first(b) ==
    LET w == check_winner(b)
    IN  IF w = PANIC THEN [pc |-> "panic", out |-> MsgPanic]
        ELSE IF is_full(b) THEN [pc |-> "draw", out |-> MsgDraw]
        ELSE IF w # None THEN [pc |-> "won", out |-> MsgWins(w)]
        ELSE [pc |-> "loop", out |-> MsgBoard]

\* after a placement, without the test of the full board
after_move_no_draw(b) ==
    LET w == check_winner(b)
    IN  IF w = PANIC THEN [pc |-> "panic", out |-> MsgPanic]
        ELSE IF w # None THEN [pc |-> "won", out |-> MsgWins(w)]
        ELSE [pc |-> "loop", out |-> MsgBoard]

\* lines 174-185: after a placement, on the board b
after_move(b) ==
    CHOOSE after \in
        { IF w = PANIC THEN [pc |-> "panic", out |-> MsgPanic]
          ELSE IF w # None THEN [pc |-> "won", out |-> MsgWins(w)]
          ELSE IF is_full(b) THEN [pc |-> "draw", out |-> MsgDraw]
          ELSE [pc |-> "loop", out |-> MsgBoard] : w \in {check_winner(b)} } :
        TRUE

Init ==
    /\ start_arg \in StartArgs
    /\ board = NoBoard
    /\ current_player = NoPlayer
    /\ pc = "start"
    /\ last = NoCall
    /\ output = <<>>
    /\ placed = <<>>

\* lines 127-131; a println! panics when the standard output cannot be
\* written
Start ==
    /\ pc = "start"
    /\ LET parsed == from_char(start_arg)
       IN  IF parsed = PANIC
           THEN /\ pc' = "panic"
                /\ output' = MsgPanic
                /\ UNCHANGED <<board, current_player>>
           ELSE LET game == new(unwrap_or(parsed, PlayerX))
                IN  /\ board' = game.board
                    /\ current_player' = game.current_player
                    /\ \/ pc' = "loop" /\ output' = MsgStart
                       \/ pc' = "panic" /\ output' = MsgPrintPanic
    /\ UNCHANGED <<start_arg, last, placed>>

\* lines 165-185: the call of play_move and what follows it; r is what
\* play_move(x, y) returns and leaves, pl the marks placed so far
attempt_move(r, pl, x, y) ==
    IF r.ret
    THEN CHOOSE t \in
            { [board |-> r.board,
               current_player |-> r.current_player,
               last |-> CallPlayMove(x, y, TRUE),
               placed |-> Append(pl, r.board[x][y]),
               pc |-> after.pc,
               output |-> after.out] : after \in {after_move(r.board)} } : TRUE
    ELSE [board |-> r.board,
          current_player |-> r.current_player,
          last |-> CallPlayMove(x, y, FALSE),
          placed |-> pl,
          pc |-> "loop",
          output |-> MsgTaken]

\* lines 143-185: one pass of the body of the loop on the line read, from the
\* board b with p to move: what it leaves.  The index of line 55 panics
\* outside the array.
turn(b, p, pl, line) ==
    LET v == validate(line)
        x == Coords[line][1][1]
        y == Coords[line][2][1]
    IN  IF v = "move" /\ ~index_ok(x, y)
        THEN [board |-> b, current_player |-> p,
              last |-> CallPanicked(x, y), placed |-> pl,
              pc |-> "panic", output |-> MsgPanic]
        ELSE IF v = "move"
        THEN CHOOSE t \in {attempt_move(r, pl, x, y) :
                               r \in {play_move(b, p, x, y)}} : TRUE
        ELSE [board |-> b, current_player |-> p,
              last |-> NoCall, placed |-> pl,
              pc |-> "loop",
              output |-> IF v = "range" THEN MsgRange ELSE MsgFormat]

\* a pass of the body of the loop on the line read
Iterate(line) ==
    \E t \in {turn(board, current_player, placed, line)} :
        /\ board' = t.board
        /\ current_player' = t.current_player
        /\ last' = t.last
        /\ placed' = t.placed
        /\ pc' = t.pc
        /\ output' = t.output
        /\ UNCHANGED start_arg

\* the line read leads to play_move, which places a mark
Places(line) ==
    /\ validate(line) = "move"
    /\ index_ok(Coords[line][1][1], Coords[line][2][1])
    /\ play_move(board, current_player, Coords[line][1][1], Coords[line][2][1]).ret

\* a pass of the loop in which the line read places a mark
TurnPlaced ==
    /\ pc = "loop"
    /\ Len(placed) < MaxPlaced
    /\ loop_condition(board)
    /\ \E line \in Lines : Places(line) /\ Iterate(line)

\* a pass of the loop that places no mark: the line read is rejected, or the
\* condition of the while (line 137) is false and the loop ends.  The
\* condition tests is_full first: on a full board check_winner is not called
\* and the loop ends; on a board that is not full check_winner is called and
\* its panic is that of from_char.
TurnNotPlaced ==
    /\ pc = "loop"
    /\ IF loop_condition(board)
       THEN \E line \in Lines : ~Places(line) /\ Iterate(line)
       ELSE IF ~is_full(board) /\ check_winner(board) = PANIC
       THEN /\ pc' = "panic"
            /\ output' = MsgPanic
            /\ UNCHANGED <<board, current_player, start_arg, last, placed>>
       ELSE /\ pc' = "exit"
            /\ UNCHANGED <<board, current_player, start_arg, last, output, placed>>

\* a pass of the loop that ends in a panic of the input or of the output:
\* the println! of the prompt (line 138) fails, or the read of line 144 fails
\* (the input is not UTF-8) and expect panics, or a line is read and the
\* println! that follows it (lines 160-183) fails
TurnPanics ==
    /\ pc = "loop"
    /\ loop_condition(board)
    /\ pc' = "panic"
    /\ \/ /\ output' \in {MsgPrintPanic, MsgReadPanic}
          /\ last' = NoCall
          /\ UNCHANGED <<board, current_player, start_arg, placed>>
       \/ \E t \in {turn(board, current_player, placed, line) : line \in Lines} :
                /\ t.pc # "panic"
                /\ board' = t.board
                /\ current_player' = t.current_player
                /\ last' = t.last
                /\ placed' = t.placed
                /\ output' = MsgPrintPanic
                /\ UNCHANGED start_arg

Next == Start \/ TurnPlaced \/ TurnNotPlaced \/ TurnPanics

Spec == Init /\ [][Next]_vars

\* a pass of the loop that places a mark, which is the mark of the player to
\* move
Placement ==
    /\ placed' = Append(placed, mark_of(current_player))
    /\ TurnPlaced

\* the players keep entering, sooner or later, a line that places a mark
\* (the input and the output may still fail)
FairSpec == Spec /\ WF_vars(Placement)

----------------------------------------------------------------------------
(* The Game used directly: Game::new, then any calls of its methods *)

InitGame ==
    /\ \E p \in Player :
          /\ board = new(p).board
          /\ current_player = new(p).current_player
          /\ start_arg = fmt_player(p)
    /\ pc = "game"
    /\ last = NoCall
    /\ output = <<>>
    /\ placed = <<>>

\* game.play_move(x, y), for any x and y up to MaxCoord
GamePlayMove ==
    /\ pc = "game"
    /\ Len(placed) < MaxPlaced
    /\ \E x \in 0 .. MaxCoord, y \in 0 .. MaxCoord :
          IF index_ok(x, y)
          THEN LET r == play_move(board, current_player, x, y)
               IN  /\ board' = r.board
                   /\ current_player' = r.current_player
                   /\ last' = CallPlayMove(x, y, r.ret)
                   /\ placed' = IF r.ret THEN Append(placed, r.board[x][y]) ELSE placed
                   /\ UNCHANGED <<pc, start_arg, output>>
          ELSE /\ pc' = "panic"
               /\ last' = CallPanicked(x, y)
               /\ UNCHANGED <<board, current_player, start_arg, output, placed>>

\* game.check_winner()
GameCheckWinner ==
    /\ pc = "game"
    /\ last' = CallCheckWinner(check_winner(board))
    /\ pc' = IF check_winner(board) = PANIC THEN "panic" ELSE pc
    /\ UNCHANGED <<board, current_player, start_arg, output, placed>>

\* game.is_full()
GameIsFull ==
    /\ pc = "game"
    /\ last' = CallIsFull(is_full(board))
    /\ UNCHANGED <<board, current_player, pc, start_arg, output, placed>>

NextGame == GamePlayMove \/ GameCheckWinner \/ GameIsFull

SpecGame == InitGame /\ [][NextGame]_vars

----------------------------------------------------------------------------
(* check_winner as a function of the board: any board over 'X', 'O', ' ' *)

Boards == [Idx -> [Idx -> Chars]]

InitPure ==
    /\ board \in Boards
    /\ current_player = PlayerX
    /\ start_arg = PLAYER_X
    /\ pc = "pure"
    /\ last = NoCall
    /\ output = <<>>
    /\ placed = <<>>

\* check_winner() on the board as it is
PureCheck ==
    /\ pc = "pure"
    /\ last' = CallCheckWinner(check_winner(board))
    /\ UNCHANGED <<board, current_player, pc, start_arg, output, placed>>

\* after a check_winner(), an empty cell is given either mark, the other cells
\* are left alone, and check_winner() is called on the fuller board
PureFill ==
    /\ pc = "pure"
    /\ last.op = "check_winner"
    /\ Len(placed) < MaxFills
    /\ \E i \in Idx, j \in Idx, c \in {PLAYER_X, PLAYER_O} :
          /\ board[i][j] = EMPTY
          /\ board' = [board EXCEPT ![i][j] = c]
          /\ last' = CallCheckWinner(check_winner([board EXCEPT ![i][j] = c]))
          /\ placed' = Append(placed, c)
    /\ UNCHANGED <<current_player, pc, start_arg, output>>

NextPure == PureCheck \/ PureFill

SpecPure == InitPure /\ [][NextPure]_vars

----------------------------------------------------------------------------
(* The lines of the board, as the rules of the game give them *)

Cells == Idx \X Idx

WinLines ==
    { {<<i, 0>>, <<i, 1>>, <<i, 2>>} : i \in Idx }
    \cup { {<<0, j>>, <<1, j>>, <<2, j>>} : j \in Idx }
    \cup { {<<0, 0>>, <<1, 1>>, <<2, 2>>}, {<<0, 2>>, <<1, 1>>, <<2, 0>>} }

\* the mark c holds the three cells of the line l
Holds(b, c, l) == \A cell \in l : b[cell[1]][cell[2]] = c

\* some line is complete for the mark c
HasLine(b, c) == \E l \in WinLines : Holds(b, c, l)

\* some line is complete
Complete(b) == HasLine(b, PLAYER_X) \/ HasLine(b, PLAYER_O)

\* the step is a call play_move(x, y)
IsPlayMove(x, y) == last'.op = "play_move" /\ last'.x = x /\ last'.y = y

----------------------------------------------------------------------------
(* The claims *)

\* C1: play_move(row, col) on an in-range empty cell returns true, writes the
\* mark of the player active before the call into that cell, leaves the other
\* eight cells as they were and passes the turn to the other player.
C1_PlaceOnEmpty ==
    [][\A x \in Idx, y \in Idx :
         (pc = "game" /\ board[x][y] = EMPTY /\ IsPlayMove(x, y))
         => /\ last'.ret = TRUE
            /\ board'[x][y] = mark_of(current_player)
            /\ \A c \in Cells \ {<<x, y>>} : board'[c[1]][c[2]] = board[c[1]][c[2]]
            /\ current_player' # current_player
            /\ current_player' \in Player]_vars

\* both players have placed a mark, the latest call being a placement
C1_Witness ==
    /\ pc = "game"
    /\ last.op = "play_move" /\ last.ret
    /\ Len(placed) >= 2
    /\ board[last.x][last.y] = mark_of(toggle(current_player))

\* C2: play_move(row, col) on an in-range cell already marked returns false
\* and leaves the nine cells and the active player as they were, however
\* many times the call is repeated.
C2_RejectOccupied ==
    [][\A x \in Idx, y \in Idx :
         (pc = "game" /\ board[x][y] # EMPTY /\ IsPlayMove(x, y))
         => /\ last'.ret = FALSE
            /\ board' = board
            /\ current_player' = current_player
            /\ \A x2 \in Idx, y2 \in Idx :
                  (board'[x2][y2] # EMPTY)
                  => play_move(board', current_player', x2, y2)
                       = [board |-> board', current_player |-> current_player',
                          ret |-> FALSE]]_vars

\* a call on a marked cell has been rejected
C2_Witness ==
    /\ pc = "game"
    /\ last.op = "play_move" /\ ~last.ret
    /\ board[last.x][last.y] # EMPTY
    /\ Len(placed) >= 1

\* a step of the game: who moves next, and what a placement writes
C3_Step ==
    /\ (current_player' # current_player)
         <=> (placed' # placed /\ last'.op = "play_move" /\ last'.ret)
    /\ (placed' # placed)
         => /\ Len(placed') = Len(placed) + 1
            /\ placed'[Len(placed')] = mark_of(current_player)
            /\ board'[last'.x][last'.y] = mark_of(current_player)
            /\ board[last'.x][last'.y] = EMPTY

\* C3: over any sequence of play_move calls on a fresh game the active player
\* changes at the successful placements and at no other step; consecutive
\* placements are made by different marks, and each placement writes the mark
\* of the player active just before it.
C3_TurnsAlternate ==
    /\ [](\A k \in 1 .. (Len(placed) - 1) : placed[k] # placed[k + 1])
    /\ [][C3_Step]_vars

\* placements and a rejected call have been mixed
C3_Witness ==
    /\ pc = "game"
    /\ Len(placed) >= 4
    /\ last.op = "play_move" /\ ~last.ret

\* C4: a cell holding X or O never becomes empty again and never changes to
\* the other mark: the set of marked cells only grows.
C4_MarksStay ==
    [][\A c \in Cells :
         board[c[1]][c[2]] # EMPTY => board'[c[1]][c[2]] = board[c[1]][c[2]]]_vars

\* every cell is marked, and a call was made on the full board
C4_Witness ==
    /\ pc = "game"
    /\ \A c \in Cells : board[c[1]][c[2]] # EMPTY
    /\ last.op = "play_move" /\ ~last.ret

\* C5: on every board over X, O and empty, check_winner returns a mark exactly
\* when one of the eight lines holds three equal marks, the mark returned
\* owns such a line, and it returns no winner exactly when no line is complete.
C5_WinnerIffLine ==
    (pc = "pure" /\ last.op = "check_winner")
    => /\ last.winner \in Player \cup {None}
       /\ (last.winner \in Player) <=> Complete(board)
       /\ (last.winner = None) <=> ~Complete(board)
       /\ (last.winner \in Player) => HasLine(board, mark_of(last.winner))

\* check_winner has returned O for the second diagonal, no other line complete
C5_Witness ==
    /\ pc = "pure"
    /\ last.op = "check_winner" /\ last.winner = PlayerO
    /\ Holds(board, PLAYER_O, {<<0, 2>>, <<1, 1>>, <<2, 0>>})
    /\ \A l \in WinLines \ {{<<0, 2>>, <<1, 1>>, <<2, 0>>}} :
          ~Holds(board, PLAYER_O, l) /\ ~Holds(board, PLAYER_X, l)

\* the program has built its Game
GameExists == pc \in {"loop", "won", "draw", "exit"}

\* C6: when the start player given on the command line is neither 'X' nor
\* 'O', the start does not fail: the game starts with an empty board and X as
\* the active player.
C6_InvalidStartFallsBack ==
    (start_arg \notin {PLAYER_X, PLAYER_O} /\ pc # "start")
    => /\ pc # "panic"
       /\ GameExists
       /\ output = MsgStart
            => (board = new(PlayerX).board /\ current_player = PlayerX)

\* C7: under the play the command loop drives, no board holds a complete line
\* of X together with a complete line of O, so every complete line belongs to
\* the mark check_winner returns, whatever the order of its scan.
C7_OneOwner ==
    GameExists
    => /\ ~(HasLine(board, PLAYER_X) /\ HasLine(board, PLAYER_O))
       /\ \A c \in {PLAYER_X, PLAYER_O} :
             HasLine(board, c) => check_winner(board) = from_char(c)

\* the last placement completed two lines at once
C7_Witness ==
    /\ pc = "won"
    /\ Cardinality({l \in WinLines : Holds(board, PLAYER_X, l)}) = 2
    /\ check_winner(board) = PlayerX

\* the step from a board whose check_winner gave a mark to a fuller board
C8_Superset ==
    /\ pc = "pure"
    /\ last.op = "check_winner" /\ last.winner \in Player
    /\ last'.op = "check_winner"
    /\ placed' # placed

\* C8 as stated: if check_winner returns m on a board, it returns m on every
\* board got by filling further empty cells with any marks.
C8_SameWinnerOnSuperset ==
    [][C8_Superset => last'.winner = last.winner]_vars

\* C8 as amended: on every such fuller board the line of m is still complete
\* and check_winner still returns a mark, which is m whenever the fuller board
\* holds no complete line of the other mark.
C8_WinnerKeptOnSuperset ==
    [][C8_Superset
       => /\ last'.winner \in Player
          /\ HasLine(board, mark_of(last.winner))
          /\ HasLine(board', mark_of(last.winner))
          /\ ~HasLine(board', mark_of(toggle(last.winner)))
               => last'.winner = last.winner]_vars

\* cells were filled with both marks and X, the winner before, is still returned
C8_Witness ==
    /\ pc = "pure"
    /\ placed = <<PLAYER_O, PLAYER_X>>
    /\ last.op = "check_winner" /\ last.winner = PlayerX
    /\ ~HasLine(board, PLAYER_O)
    /\ ~is_full(board)

\* C9: won and drawn are final in the running program: once a line is
\* complete (check_winner returns a mark) or the board is full, no play_move
\* follows, and the board and the active player never change again.
C9_Terminal ==
    [][(GameExists
        /\ (check_winner(board) \in Player \/ Complete(board) \/ is_full(board)))
       => /\ board' = board
          /\ current_player' = current_player
          /\ placed' = placed
          /\ last' = last]_vars

\* the ninth placement completed a line: the board is full and won
C9_Witness ==
    /\ pc = "won"
    /\ is_full(board)
    /\ check_winner(board) \in Player

\* C10: every game ends: the loop makes at most 9 placements, and when the
\* players keep entering lines that place a mark (the input stays readable
\* and the output writable, so that no pass panics), it prints a win or a
\* draw message and stops.
C10_GameEnds ==
    (pc = "loop")
      ~> \/ pc = "panic"
         \/ /\ pc \in {"won", "draw"}
            /\ output \in {MsgDraw, MsgWins(PlayerX), MsgWins(PlayerO)}
            /\ Len(placed) <= BoardSize * BoardSize

\* nine placements were made and the draw was announced
C10_Witness ==
    /\ pc = "draw"
    /\ Len(placed) = BoardSize * BoardSize
    /\ output = MsgDraw


\* the cells holding the mark c
CellsOf(b, c) == {cell \in Cells : b[cell[1]][cell[2]] = c}

\* C11: a freshly created game, for either starting mark, has its nine cells
\* empty and the mark supplied as the active player; is_full() is false and
\* check_winner() reports no winner.
C11_FreshGame ==
    (pc = "game" /\ placed = <<>>)
    => /\ \A cell \in Cells : board[cell[1]][cell[2]] = EMPTY
       /\ current_player \in Player
       /\ fmt_player(current_player) = start_arg
       /\ ~is_full(board)
       /\ check_winner(board) = None
       /\ last.op = "is_full" => last.full = FALSE
       /\ last.op = "check_winner" => last.winner = None

\* a game created for O, asked for its winner before any move
C11_Witness ==
    /\ pc = "game" /\ placed = <<>>
    /\ start_arg = PLAYER_O /\ current_player = PlayerO
    /\ last.op = "check_winner"

\* C12: is_full() is true exactly when none of the nine cells is empty, which
\* along any play of a fresh game is exactly when nine placements were made.
C12_FullIffNine ==
    (pc \in {"game", "panic"})
    => /\ is_full(board) <=> (CellsOf(board, EMPTY) = {})
       /\ is_full(board) <=> (Len(placed) = BoardSize * BoardSize)
       /\ Cardinality(Cells \ CellsOf(board, EMPTY)) = Len(placed)
       /\ last.op = "is_full"
            => (last.full <=> (Len(placed) = BoardSize * BoardSize))

\* is_full() has answered true after nine placements
C12_Witness ==
    /\ pc = "game"
    /\ last.op = "is_full" /\ last.full
    /\ Len(placed) = BoardSize * BoardSize


\* the mark of the n-th placement of a play that X starts
MarkAt(n) == IF n % 2 = 1 THEN PLAYER_X ELSE PLAYER_O

\* the board holding the first k placements of the sequence of cells moves,
\* X having started
BoardAfter(moves, k) ==
    [i \in Idx |-> [j \in Idx |->
        IF \E n \in 1..k : moves[n] = <<i, j>>
        THEN MarkAt(CHOOSE n \in 1..k : moves[n] = <<i, j>>)
        ELSE EMPTY]]

\* the marks of the first k placements of a play that X starts
MarksAfter(k) == [n \in 1..k |-> MarkAt(n)]

\* Scenario A: the cells played, in order
MovesA == <<<<0, 0>>, <<1, 1>>, <<0, 1>>, <<1, 0>>, <<0, 2>>>>

C13_Step ==
    \A k \in 0..(Len(MovesA) - 1) :
        (/\ pc = "game" /\ start_arg = PLAYER_X
         /\ board = BoardAfter(MovesA, k)
         /\ IsPlayMove(MovesA[k + 1][1], MovesA[k + 1][2]))
        => /\ mark_of(current_player) = MarkAt(k + 1)
           /\ last'.ret = TRUE
           /\ board' = BoardAfter(MovesA, k + 1)
           /\ placed' = MarksAfter(k + 1)
           /\ pc' = "game"
           /\ (k + 1 = Len(MovesA))
                => /\ check_winner(board') = PlayerX
                   /\ ~is_full(board')

\* C13: Scenario A: in a fresh game that X starts, the placements (0,0),
\* (1,1), (0,1), (1,0), (0,2) in this order all succeed, the marks written
\* are X, O, X, O, X, and afterwards check_winner() is X and is_full() is
\* false.
C13_ScenarioA == [][C13_Step]_vars

\* the five placements of Scenario A are made and the winner is asked for
C13_Witness ==
    /\ pc = "game" /\ start_arg = PLAYER_X
    /\ board = BoardAfter(MovesA, Len(MovesA))
    /\ placed = MarksAfter(Len(MovesA))
    /\ last = CallCheckWinner(PlayerX)

\* Scenario B: the cells played, in order; the final board is
\* X O X / X O X / O X O
MovesB == <<<<0, 0>>, <<0, 1>>, <<0, 2>>, <<1, 1>>, <<1, 0>>,
            <<2, 0>>, <<1, 2>>, <<2, 2>>, <<2, 1>>>>

\* every marked cell of b holds the mark that d holds there
SubBoard(b, d) ==
    \A cell \in Cells :
        b[cell[1]][cell[2]] \in {EMPTY, d[cell[1]][cell[2]]}

\* C14: Scenario B: in a game that X starts, the board X O X / X O X / O X O
\* is reached by nine successful alternating placements with no winner at
\* any step on the way; on it is_full() is true and check_winner() reports no
\* winner.
C14_ScenarioB ==
    (GameExists /\ start_arg = PLAYER_X
        /\ SubBoard(board, BoardAfter(MovesB, Len(MovesB))))
    => /\ check_winner(board) = None
       /\ ~Complete(board)
       /\ placed = MarksAfter(Len(placed))
       /\ (board = BoardAfter(MovesB, Len(MovesB)))
            => /\ is_full(board)
               /\ Len(placed) = BoardSize * BoardSize
               /\ pc = "draw" /\ output = MsgDraw
       /\ (board # BoardAfter(MovesB, Len(MovesB)))
            => /\ ~is_full(board)
               /\ pc = "loop"

\* the board of Scenario B is reached, the last placement being (2,1)
C14_Witness ==
    /\ pc = "draw" /\ start_arg = PLAYER_X
    /\ board = BoardAfter(MovesB, Len(MovesB))
    /\ last = CallPlayMove(2, 1, TRUE)
    /\ placed = MarksAfter(Len(MovesB))


\* the step is a pass of the loop on an input that is refused: a line that is
\* not two numbers, a coordinate out of range, an occupied cell, or bytes
\* that are not text, on which the read of line 144 fails
C15_Step ==
    (/\ pc = "loop"
     /\ loop_condition(board)
     /\ output' \in {MsgFormat, MsgRange, MsgTaken, MsgReadPanic})
    => /\ board' = board
       /\ current_player' = current_player
       /\ placed' = placed
       /\ pc' = "loop"

\* C15: an input of a turn that is rejected (not two non-negative integers
\* separated by a comma, a coordinate greater than 2, or an occupied cell)
\* leaves the board and the active player as they were and does not end the
\* session: the loop goes on and prompts the same player again.
C15_RejectedTurn == [][C15_Step]_vars

\* C16: the loop never calls play_move with a row or a column outside 0..2:
\* the index of play_move never panics in the running program.
C16_MoveInRange ==
    /\ last.op # "play_move panicked"
    /\ last.op = "play_move" => (last.x \in Idx /\ last.y \in Idx)
    /\ pc = "panic"
         => \/ board = NoBoard /\ output = MsgPanic /\ last = NoCall
            \/ board # NoBoard /\ output \in {MsgReadPanic, MsgPrintPanic}

\* a line out of range has just been refused, after a call of play_move
C16_Witness ==
    /\ pc = "loop"
    /\ output = MsgRange
    /\ placed # <<>>


\* the lines of the board through the cell (x, y) that are complete for c
LinesThrough(b, c, x, y) ==
    {l \in WinLines : <<x, y>> \in l /\ Holds(b, c, l)}

\* C17: the loop ends with one announcement: a win for a mark exactly when
\* the last placement completed a line of that mark, a draw exactly when the
\* board is full with no complete line; a ninth placement that fills the
\* board and completes a line is announced as a win.
C17_OneOutcome ==
    GameExists
    => /\ pc \in {"loop", "won", "draw"}
       /\ (pc = "won") <=> Complete(board)
       /\ (pc = "draw") <=> (CellsOf(board, EMPTY) = {} /\ ~Complete(board))
       /\ (pc = "won")
            => /\ last.op = "play_move" /\ last.ret = TRUE
               /\ \E p \in Player :
                     /\ output = MsgWins(p)
                     /\ board[last.x][last.y] = mark_of(p)
                     /\ LinesThrough(board, mark_of(p), last.x, last.y) # {}
                     /\ ~HasLine(board, mark_of(toggle(p)))
       /\ (pc = "draw")
            => /\ output = MsgDraw
               /\ last.op = "play_move" /\ last.ret = TRUE
       /\ (pc = "loop")
            => output \notin {MsgDraw, MsgWins(PlayerX), MsgWins(PlayerO)}

\* the ninth placement fills the board and completes a line: X is announced
C17_Witness ==
    /\ pc = "won"
    /\ CellsOf(board, EMPTY) = {}
    /\ Len(placed) = BoardSize * BoardSize
    /\ output = MsgWins(PlayerX)

\* the cells of the starting player minus the cells of the other player
Lead(b, start) ==
    Cardinality(CellsOf(b, mark_of(start)))
        - Cardinality(CellsOf(b, mark_of(toggle(start))))

\* C18: in every state reached from a fresh game by calls of play_move, the
\* starting player has as many marks as the other player or one more, and
\* the active player is the starting player exactly when they have as many.
C18_CountsAlternate ==
    (pc \in {"game", "panic"})
    => /\ Lead(board, from_char(start_arg)) \in {0, 1}
       /\ (current_player = from_char(start_arg))
            <=> (Lead(board, from_char(start_arg)) = 0)

\* O started and has five marks against four, after a refused call
C18_Witness ==
    /\ pc = "game" /\ start_arg = PLAYER_O
    /\ Cardinality(CellsOf(board, PLAYER_O)) = 5
    /\ Cardinality(CellsOf(board, PLAYER_X)) = 4
    /\ last.op = "play_move" /\ last.ret = FALSE

\* C19: in every state of the loop in which check_winner returns a mark, the
\* mark is that of the player who made the last placement, the opposite of
\* the active player.
C19_WinnerMovedLast ==
    (GameExists /\ check_winner(board) # None)
    => /\ check_winner(board) \in Player
       /\ check_winner(board) = toggle(current_player)
       /\ last.op = "play_move" /\ last.ret = TRUE
       /\ board[last.x][last.y] = mark_of(check_winner(board))
       /\ placed[Len(placed)] = mark_of(check_winner(board))

\* O, who did not start, has won and X is the active player
C19_Witness ==
    /\ pc = "won" /\ start_arg = PLAYER_X
    /\ check_winner(board) = PlayerO
    /\ current_player = PlayerX

\* the characters check_winner passes to from_char on the board b
FromCharArgs(b) ==
    {b[i][0] : i \in {k \in Idx : horizontal(b, k)}}
    \cup {b[0][i] : i \in {k \in Idx : vertical(b, k)}}
    \cup (IF diagonal(b) THEN {b[0][0]} ELSE {})
    \cup (IF anti_diagonal(b) THEN {b[0][2]} ELSE {})

\* C20: in every reachable state each cell holds 'X', 'O' or ' ', and
\* check_winner passes only 'X' or 'O' to from_char: the panic of from_char
\* is never reached from check_winner.
C20_NoPanicInCheckWinner ==
    (pc \in {"game", "panic"})
    => /\ \A cell \in Cells : board[cell[1]][cell[2]] \in Chars
       /\ FromCharArgs(board) \subseteq {PLAYER_X, PLAYER_O}
       /\ \A c \in FromCharArgs(board) : from_char(c) # PANIC
       /\ check_winner(board) \in Player \cup {None}
       /\ last.op = "check_winner" => last.winner \in Player \cup {None}
       /\ pc = "panic" => last.op = "play_move panicked"

\* check_winner has passed 'O' to from_char and returned O
C20_Witness ==
    /\ pc = "game"
    /\ last = CallCheckWinner(PlayerO)
    /\ FromCharArgs(board) = {PLAYER_O}

====
